---- MODULE Spec2Model ----
(***************************************************************************)
(* Video sentiment analysis server: the upload endpoint, the process       *)
(* endpoint and the background pipeline processVideoAsync, with the four   *)
(* MongoDB collections it touches and the object store.                    *)
(*                                                                         *)
(* Conventions                                                             *)
(*  - A job's progress is a JavaScript number.  The pipeline computes      *)
(*    20 + p * 0.2, 50 + p * 0.2 and 70 + p * 0.25 from integer            *)
(*    percentages p, so every value is a multiple of 0.05; the model       *)
(*    keeps progress in hundredths (progress 20.2 is 2020).                *)
(*  - Strings built by the code (timestamps) are sequences of              *)
(*    one-character strings.                                               *)
(*  - JavaScript null is the string "null".                                *)
(*  - An awaited database write is one atomic step of the pipeline; a     *)
(*    write issued from a progress callback is not awaited by anyone and  *)
(*    stays in flight until the database applies it.                      *)
(*  - The database is assumed to accept every single-document write of    *)
(*    the job record (the catch blocks around them only log).             *)
(*  - error.message of an external call that raised is abstracted to the  *)
(*    name of the call ("compress failed" for any error of compressVideo).*)
(***************************************************************************)
EXTENDS Integers, Sequences, FiniteSets, TLC

\* ------------------------------------------------------------------ bounds
MaxVideos == 1
MaxJobs == 2
MaxFrames == 2
MaxInflight == 1
\* pipelines that run, or have writes in flight, at the same time
MaxRunning == 1
\* annotations stored at the same time
MaxAnnotations == 1
\* frame numbers frameToTimestamp is called with (a 120 s video has 120)
MaxFrameNumber == 125
\* frames of the analyzeBatch followed step by step
MaxBatchFrames == 3
\* getMockSentiment calls in a row, on the timestamps of frames up to this
MaxMockCalls == 3
MaxMockFrame == 9
\* provider confidences, in tenths of a percent
MaxConfidence == 1000
\* a frame number whose minutes take three digits
LongFrameNumber == 6000

\* percentages the transcoder's progress events report (Math.round(percent)),
\* taken in increasing order within one run of the transcoder
PctValues == {1, 100}

\* ------------------------------------------------------- program constants
MAX_FILE_SIZE == 104857600
MaxDurationSeconds == 120

allowedTypes == {"video/mp4", "video/webm", "video/quicktime"}

\* ------------------------------------------------------------------- state
VARIABLES
  env,              \* process.env: NODE_ENV, access key and bucket present
  videos,           \* collection videos: _id -> document
  analysisJobs,     \* collection analysis_jobs: _id -> document
  sentimentResults, \* collection sentiment_results: sequence of documents
  objects,          \* keys stored in the bucket
  proc,             \* one processVideoAsync activation per job
  req,              \* the upload request the server has received, if any
  resp,             \* the last response the server has sent
  manualAnnotations, \* collection manual_annotations: _id -> document
  annotationReq,    \* the annotation request the server has received, if any
  analyzer,         \* a SentimentAnalyzer exercised on its own: its calls
  client,           \* the browser's useVideoAnalysis hook polling one job
  stats             \* GET /annotations/:videoId/stats being handled

vars ==
  <<env, videos, analysisJobs, sentimentResults, objects, proc, req, resp,
    manualAnnotations, annotationReq, analyzer, client, stats>>

\* what the upload router never touches
annotationVars == <<manualAnnotations, annotationReq, analyzer, client, stats>>

VideoIds == 1..MaxVideos
JobIds == 1..MaxJobs
\* a video id no upload ever returned
UnknownVideo == 0

NULL == "null"

\* ------------------------------------------------------------ configuration
\* s3Service.js constructor: useS3
useS3 == env.hasKey /\ env.hasBucket

\* sentimentAnalyzer.js constructor: mockMode
mockMode == env.nodeEnv = "development" /\ ~env.hasKey

production == env.nodeEnv = "production"

\* the S3Service constructor throws in production without S3: the server
\* never starts in that configuration
Environments ==
  { e \in [nodeEnv : {"production", "development"},
           hasKey : BOOLEAN, hasBucket : BOOLEAN] :
      e.nodeEnv = "production" => (e.hasKey /\ e.hasBucket) }

\* ---------------------------------------------------------------- S3Service
\* the outcomes of one call of the object store: it answers or it errors
S3Outcomes == {"ok", "error"}

\* a null url/key pair
NullKey == <<>>

\* `${videoId}_original.mp4` and `${videoId}.mp4`; uploadVideo puts them
\* under videos/
OriginalKey(v) == <<"videos/", v, "_original.mp4">>
CompressedKey(v) == <<"videos/", v, ".mp4">>

\* S3Service.uploadVideo(buffer, key): it throws, or returns the stored key.
\* Without S3, and on an S3 error outside production, it returns
\* {url: null, key: null} and stores nothing.
uploadVideo(key, outcome) ==
  IF ~useS3
    THEN [threw |-> production, key |-> NullKey]
    ELSE IF outcome = "ok"
           THEN [threw |-> FALSE, key |-> key]
           ELSE [threw |-> production, key |-> NullKey]

\* S3Service.downloadVideo(key): TRUE when it returns the object's bytes,
\* FALSE when it throws: without S3, when getObject errors, and when the
\* key names no object (a null key included).
downloadVideo(key, outcome) ==
  useS3 /\ outcome = "ok" /\ key \in objects

\* ------------------------------------------------------------ POST /upload
NoRequest == [mimetype |-> NULL, size |-> 0, duration |-> 0]

\* a field a request body does not carry
Absent == <<>>

\* no annotation request is pending
NoAnnotationRequest ==
  [op |-> NULL, videoId |-> 0, annotationId |-> 0, type |-> NULL,
   label |-> NULL, timestamp |-> Absent, startTimestamp |-> Absent,
   endTimestamp |-> Absent]

\* what a client may send: the file's MIME type, its size in bytes and the
\* duration of its content in seconds (ffprobe's metadata.format.duration)
Requests == [mimetype : allowedTypes \cup {"video/x-msvideo"},
             size : {MAX_FILE_SIZE, MAX_FILE_SIZE + 1},
             duration : {MaxDurationSeconds, MaxDurationSeconds + 1}]

\* ffprobe answers or fails
ProbeOutcomes == {"ok", "error"}

\* a client sends POST /upload (uuidv4 still has an unused id to give;
\* requests of the upload and annotation routers are taken one at a time)
UploadRequest(r) ==
  /\ req = NoRequest
  /\ annotationReq = NoAnnotationRequest
  /\ Cardinality(DOMAIN videos) < MaxVideos
  /\ req' = r
  /\ UNCHANGED <<env, videos, analysisJobs, sentimentResults, objects, proc,
                 resp>>
  /\ UNCHANGED annotationVars

\* multer: fileFilter, then limits.fileSize
fileFilter(file) == file.mimetype \in allowedTypes
withinFileSize(file) == file.size <= MAX_FILE_SIZE

\* a handler without the duration check
durationAllowed_unchecked(duration) == duration >= 0

\* the handler's duration check: it returns 400 when this is false
durationAllowed(duration) == ~(duration > MaxDurationSeconds)

Response(status, error) == [status |-> status, error |-> error]
NoResponse == Response(0, NULL)

\* the response of POST /upload.  An error of fileFilter is no MulterError:
\* the error middleware of index.js answers it with 500; LIMIT_FILE_SIZE
\* gets 400; what the handler catches gets 500.
UploadResponse(file, probe, s3) ==
  IF ~fileFilter(file) THEN Response(500, "Internal server error")
  ELSE IF ~withinFileSize(file)
    THEN Response(400, "File too large. Maximum size is 100MB.")
  ELSE IF probe # "ok" THEN Response(500, "Upload failed: ffprobe")
  ELSE IF ~durationAllowed(file.duration)
    THEN Response(400, "Video duration must be less than 2 minutes")
  ELSE IF uploadVideo(NullKey, s3).threw
    THEN Response(500, "Upload failed: Failed to upload video to S3")
  ELSE Response(200, NULL)

\* the handler reaches insertOne iff multer passed the file on, and none of
\* its early returns and none of its awaited calls stopped it
UploadAccepted(file, probe, s3) ==
  UploadResponse(file, probe, s3).status = 200

\* the server handles POST /upload: a rejected request changes nothing
Upload(probe, s3) ==
  LET videoId == Cardinality(DOMAIN videos) + 1
      up == uploadVideo(OriginalKey(videoId), s3)
  IN /\ req # NoRequest
     /\ req' = NoRequest
     /\ resp' = UploadResponse(req, probe, s3)
     /\ IF UploadAccepted(req, probe, s3)
          THEN /\ videos' = [v \in DOMAIN videos \cup {videoId} |->
                              IF v = videoId
                                THEN [file_size |-> req.size,
                                      duration |-> req.duration,
                                      status |-> "uploaded",
                                      s3_key |-> up.key]
                                ELSE videos[v]]
               /\ objects' = objects \cup ({up.key} \ {NullKey})
          ELSE UNCHANGED <<videos, objects>>
     /\ UNCHANGED <<env, analysisJobs, sentimentResults, proc>>
     /\ UNCHANGED annotationVars

\* ------------------------------------------- POST /upload/:videoId/process
\* the activation of processVideoAsync a new job starts with.  pc is the
\* await it stands at, key the video.s3_key it read, results the array of
\* analyzeBatch, lastPct the last percentage the running transcoder
\* reported, inflight the job updates issued and not yet applied, error the
\* message of the exception it caught; faults (history) is the set of its
\* external calls that errored
NewProc ==
  [pc |-> "lookup", key |-> NullKey, nframes |-> 0, results |-> <<>>,
   inflight |-> {}, lastPct |-> 0, error |-> NULL, faults |-> {}]

\* the pipeline of job j still runs, or writes it issued are in flight
Running(j) == proc[j].pc # "done" \/ proc[j].inflight # {}

\* inserts the job document and starts processVideoAsync in the background;
\* the video id is not looked up here
Process(videoId) ==
  LET jobId == Cardinality(DOMAIN analysisJobs) + 1
  IN /\ jobId \in JobIds
     /\ Cardinality({j \in DOMAIN proc : Running(j)}) < MaxRunning
     /\ analysisJobs' = [j \in DOMAIN analysisJobs \cup {jobId} |->
                          IF j = jobId
                            THEN [video_id |-> videoId,
                                  status |-> "processing",
                                  progress |-> 0,
                                  error_message |-> NULL]
                            ELSE analysisJobs[j]]
     /\ proc' = [j \in DOMAIN proc \cup {jobId} |->
                  IF j = jobId THEN NewProc ELSE proc[j]]
     /\ resp' = Response(200, NULL)
     /\ UNCHANGED <<env, videos, sentimentResults, objects, req>>
     /\ UNCHANGED annotationVars

\* ------------------------------------------------------- SentimentAnalyzer
Digits == <<"0", "1", "2", "3", "4", "5", "6", "7", "8", "9">>

DigitValue(c) == CHOOSE d \in 0..9 : Digits[d + 1] = c

IsDigit(c) == \E d \in 0..9 : Digits[d + 1] = c

\* the numbers that are no finite number
NaN == <<"NaN">>
Infinity == <<"Infinity">>

\* the digits of a numeral after its leading zeros
RECURSIVE significantDigits(_)
significantDigits(digits) ==
  IF digits # <<>> /\ digits[1] = "0" THEN significantDigits(Tail(digits))
  ELSE digits

\* the value of a string of digits read in base 10
RECURSIVE decimalValue(_)
decimalValue(digits) ==
  IF digits = <<>> THEN 0
  ELSE 10 * decimalValue(SubSeq(digits, 1, Len(digits) - 1))
         + DigitValue(digits[Len(digits)])

\* Number.prototype.toString() of a natural number
RECURSIVE toString(_)
toString(n) ==
  IF n < 10 THEN <<Digits[n + 1]>>
  ELSE toString(n \div 10) \o <<Digits[(n % 10) + 1]>>

\* String.prototype.padStart(targetLength, "0")
RECURSIVE padStart(_, _)
padStart(str, targetLength) ==
  IF Len(str) >= targetLength THEN str
  ELSE padStart(<<"0">> \o str, targetLength)

\* a frameToTimestamp that counts the frames from 0
frameToTimestamp_zeroBased(frameNumber) ==
  LET seconds == frameNumber - 1
  IN <<"0", "0", ":">> \o padStart(toString(seconds \div 60), 2)
       \o <<":">> \o padStart(toString(seconds % 60), 2)

\* SentimentAnalyzer.frameToTimestamp
frameToTimestamp(frameNumber) ==
  LET seconds == frameNumber
      minutes == seconds \div 60
      remainingSeconds == seconds % 60
  IN <<"0", "0", ":">> \o padStart(toString(minutes), 2)
       \o <<":">> \o padStart(toString(remainingSeconds), 2)

\* Math.round(x / y) for naturals x and y > 0: halves round up
RoundDiv(x, y) == (2 * x + y) \div (2 * y)

\* the url S3Service.uploadImage leaves in analyzeFrame's imageUrl: null
\* without S3 and whenever the upload errors (thrown and caught in
\* production, returned as {url: null} otherwise)
frameImageUrl(key, outcome) ==
  IF useS3 /\ outcome = "ok" THEN key ELSE NullKey

\* --------------------------------------------------------- updateJobStatus
\* the $set of updateJobStatus(status, progress) applied to a job document
ApplyUpdate(doc, w) ==
  [doc EXCEPT !.status = w.status, !.progress = w.progress]

\* a catch block that records the failure under another status name
ApplyFailure_error(doc, message) ==
  [doc EXCEPT !.status = "error", !.error_message = message]

\* the $set of the catch block: status failed and the message, no progress
ApplyFailure(doc, message) ==
  [doc EXCEPT !.status = "failed", !.error_message = message]

\* await updateJobStatus(status, progress): the pipeline goes on once the
\* database has applied the write
AwaitUpdate(j, status, progress) ==
  analysisJobs' = [analysisJobs EXCEPT
                     ![j] = ApplyUpdate(@, [status |-> status,
                                            progress |-> progress])]

\* the job documents after a progress callback has called updateJobStatus
\* without anyone awaiting it, and the writes still in flight: the write
\* joins the writes in flight; when MaxInflight of them are in flight
\* already the database applies this one at once
CallbackJobs(j, w) ==
  IF Cardinality(proc[j].inflight \cup {w}) <= MaxInflight
    THEN analysisJobs
    ELSE [analysisJobs EXCEPT ![j] = ApplyUpdate(@, w)]

CallbackInflight(j, w) ==
  IF Cardinality(proc[j].inflight \cup {w}) <= MaxInflight
    THEN proc[j].inflight \cup {w}
    ELSE proc[j].inflight

\* the database applies a write that was in flight
LandWrite(j, w) ==
  /\ j \in DOMAIN proc
  /\ w \in proc[j].inflight
  /\ analysisJobs' = [analysisJobs EXCEPT ![j] = ApplyUpdate(@, w)]
  /\ proc' = [proc EXCEPT ![j].inflight = @ \ {w}]
  /\ UNCHANGED <<env, videos, sentimentResults, objects, req, resp>>
  /\ UNCHANGED annotationVars

\* -------------------------------------------------------- processVideoAsync
\* the catch block: cleanup (a no-op), then the failure update
Catch(j, message, faults) ==
  /\ analysisJobs' = [analysisJobs EXCEPT ![j] = ApplyFailure(@, message)]
  /\ proc' = [proc EXCEPT ![j].pc = "done", ![j].error = message,
                          ![j].lastPct = 0, ![j].faults = faults]

\* the faults of job j after an external call with this outcome
Faults(j, call, outcome) ==
  IF outcome = "error" THEN proc[j].faults \cup {call} ELSE proc[j].faults

\* the progress the callbacks hand to updateJobStatus, in hundredths:
\* 20 + progress * 0.2, 50 + progress * 0.2 and 70 + progress * 0.25
compressProgress(progress) == 2000 + progress * 20
extractProgress(progress) == 5000 + progress * 20
\* an analysis band twice as wide: 70 + progress * 0.5
analyzeProgress_wide(progress) == 7000 + progress * 50
analyzeProgress(progress) == 7000 + progress * 25

\* a pipeline that starts by deleting what is stored for the video, its
\* annotations included
Lookup_clearsVideoData(j) ==
  /\ j \in DOMAIN proc
  /\ proc[j].pc = "lookup"
  /\ LET v == analysisJobs[j].video_id
     IN /\ IF v \notin DOMAIN videos
             THEN Catch(j, "Video not found", proc[j].faults)
             ELSE /\ AwaitUpdate(j, "processing", 1000)
                  /\ proc' = [proc EXCEPT ![j].pc = "download",
                                          ![j].key = videos[v].s3_key]
        /\ manualAnnotations' =
             [a \in {b \in DOMAIN manualAnnotations :
                       manualAnnotations[b].video_id # v} |->
                manualAnnotations[a]]
  /\ UNCHANGED <<env, videos, sentimentResults, objects, req, resp,
                 annotationReq, analyzer, client, stats>>

\* findOne of the video, then updateJobStatus("processing", 10)
Lookup(j) ==
  /\ j \in DOMAIN proc
  /\ proc[j].pc = "lookup"
  /\ LET v == analysisJobs[j].video_id
     IN IF v \notin DOMAIN videos
          THEN Catch(j, "Video not found", proc[j].faults)
          ELSE /\ AwaitUpdate(j, "processing", 1000)
               /\ proc' = [proc EXCEPT ![j].pc = "download",
                                       ![j].key = videos[v].s3_key]
  /\ UNCHANGED <<env, videos, sentimentResults, objects, req, resp>>
  /\ UNCHANGED annotationVars

\* downloadVideo(video.s3_key), then updateJobStatus("compressing", 20)
Download(j, s3) ==
  /\ j \in DOMAIN proc
  /\ proc[j].pc = "download"
  /\ IF downloadVideo(proc[j].key, s3)
       THEN /\ AwaitUpdate(j, "compressing", 2000)
            /\ proc' = [proc EXCEPT ![j].pc = "compress"]
       ELSE Catch(j, "download failed",
                  IF useS3 THEN Faults(j, "download", s3) ELSE proc[j].faults)
  /\ UNCHANGED <<env, videos, sentimentResults, objects, req, resp>>
  /\ UNCHANGED annotationVars

\* a progress event of the transcoder: the callback calls
\* updateJobStatus("compressing", 20 + progress * 0.2) and nobody awaits it
CompressProgress(j, progress) ==
  /\ j \in DOMAIN proc
  /\ proc[j].pc = "compress"
  /\ progress > proc[j].lastPct
  /\ LET w == [status |-> "compressing", progress |-> compressProgress(progress)]
     IN /\ analysisJobs' = CallbackJobs(j, w)
        /\ proc' = [proc EXCEPT ![j].inflight = CallbackInflight(j, w),
                                ![j].lastPct = progress]
  /\ UNCHANGED <<env, videos, sentimentResults, objects, req, resp>>
  /\ UNCHANGED annotationVars

\* compressVideo settles; on success updateJobStatus("uploading", 40)
CompressEnd(j, ffmpeg) ==
  /\ j \in DOMAIN proc
  /\ proc[j].pc = "compress"
  /\ IF ffmpeg = "ok"
       THEN /\ AwaitUpdate(j, "uploading", 4000)
            /\ proc' = [proc EXCEPT ![j].pc = "upload", ![j].lastPct = 0]
       ELSE Catch(j, "compress failed", Faults(j, "compress", ffmpeg))
  /\ UNCHANGED <<env, videos, sentimentResults, objects, req, resp>>
  /\ UNCHANGED annotationVars

\* uploadVideo of the transcoded video, the update of the video document,
\* then updateJobStatus("analyzing", 50)
UploadCompressed(j, s3) ==
  /\ j \in DOMAIN proc
  /\ proc[j].pc = "upload"
  /\ LET v == analysisJobs[j].video_id
         up == uploadVideo(CompressedKey(v), s3)
     IN IF up.threw
          THEN /\ Catch(j, "upload failed", Faults(j, "upload", s3))
               /\ UNCHANGED <<videos, objects>>
          ELSE /\ objects' = objects \cup ({up.key} \ {NullKey})
               /\ videos' = [videos EXCEPT ![v].s3_key = up.key,
                                           ![v].status = "processed"]
               /\ AwaitUpdate(j, "analyzing", 5000)
               /\ proc' = [proc EXCEPT
                            ![j].pc = "extract",
                            ![j].faults = IF useS3 THEN Faults(j, "upload", s3)
                                          ELSE @]
  /\ UNCHANGED <<env, sentimentResults, req, resp>>
  /\ UNCHANGED annotationVars

\* a progress event of the frame extraction: the callback calls
\* updateJobStatus("analyzing", 50 + progress * 0.2) and nobody awaits it
ExtractProgress(j, progress) ==
  /\ j \in DOMAIN proc
  /\ proc[j].pc = "extract"
  /\ progress > proc[j].lastPct
  /\ LET w == [status |-> "analyzing", progress |-> extractProgress(progress)]
     IN /\ analysisJobs' = CallbackJobs(j, w)
        /\ proc' = [proc EXCEPT ![j].inflight = CallbackInflight(j, w),
                                ![j].lastPct = progress]
  /\ UNCHANGED <<env, videos, sentimentResults, objects, req, resp>>
  /\ UNCHANGED annotationVars

\* extractFrames settles with n frames, indexed 1..n; on success
\* updateJobStatus("analyzing", 70)
ExtractEnd(j, ffmpeg, n) ==
  /\ j \in DOMAIN proc
  /\ proc[j].pc = "extract"
  /\ IF ffmpeg = "ok"
       THEN /\ AwaitUpdate(j, "analyzing", 7000)
            /\ proc' = [proc EXCEPT ![j].pc = "analyze", ![j].nframes = n,
                                    ![j].lastPct = 0]
       ELSE Catch(j, "extract failed", Faults(j, "extract", ffmpeg))
  /\ UNCHANGED <<env, videos, sentimentResults, objects, req, resp>>
  /\ UNCHANGED annotationVars

\* an analyzeBatch that stores each sample as soon as its frame is
\* classified instead of leaving it to the bulk insert
AnalyzeFrame_insertsRow(j, s3) ==
  /\ j \in DOMAIN proc
  /\ proc[j].pc = "analyze"
  /\ Len(proc[j].results) < proc[j].nframes
  /\ LET i == Len(proc[j].results) + 1
         v == analysisJobs[j].video_id
         result == [timestamp |-> frameToTimestamp(i),
                    imageUrl |-> frameImageUrl(<<"screenshots/", v, i>>, s3)]
         w == [status |-> "analyzing",
               progress |-> analyzeProgress(RoundDiv(i * 100, proc[j].nframes))]
     IN /\ analysisJobs' = CallbackJobs(j, w)
        /\ proc' = [proc EXCEPT ![j].inflight = CallbackInflight(j, w),
                                ![j].results = Append(@, result)]
        /\ sentimentResults' =
             Append(sentimentResults,
                    [video_id |-> v, timestamp |-> result.timestamp,
                     imageUrl |-> result.imageUrl, job |-> j])
  /\ UNCHANGED <<env, videos, objects, req, resp>>
  /\ UNCHANGED annotationVars

\* one iteration of analyzeBatch's loop: analyzeFrame of frame i (the image
\* upload, then the classification), results.push, and the progress
\* callback updateJobStatus("analyzing", 70 + progress * 0.25), not awaited
AnalyzeFrame(j, s3) ==
  /\ j \in DOMAIN proc
  /\ proc[j].pc = "analyze"
  /\ Len(proc[j].results) < proc[j].nframes
  /\ LET i == Len(proc[j].results) + 1
         v == analysisJobs[j].video_id
         timestamp == frameToTimestamp(i)
         result == [timestamp |-> timestamp,
                    imageUrl |-> frameImageUrl(<<"screenshots/", v, i>>, s3)]
         progress == RoundDiv(i * 100, proc[j].nframes)
         w == [status |-> "analyzing", progress |-> analyzeProgress(progress)]
     IN /\ analysisJobs' = CallbackJobs(j, w)
        /\ proc' = [proc EXCEPT ![j].inflight = CallbackInflight(j, w),
                                ![j].results = Append(@, result),
                                ![j].faults = IF useS3 THEN Faults(j, "image", s3)
                                              ELSE @]
  /\ UNCHANGED <<env, videos, sentimentResults, objects, req, resp>>
  /\ UNCHANGED annotationVars

\* the documents insertMany is given
sentimentDocs(j) ==
  [k \in 1..Len(proc[j].results) |->
     [video_id |-> analysisJobs[j].video_id,
      timestamp |-> proc[j].results[k].timestamp,
      imageUrl |-> proc[j].results[k].imageUrl,
      job |-> j]]

\* after analyzeBatch: insertMany when there are results, cleanup (a no-op),
\* then updateJobStatus("completed", 100).  An insertMany that errors has
\* inserted the first `inserted` documents (an ordered bulk insert stops at
\* the first error; an error after the server applied the batch leaves all).
Persist(j, db, inserted) ==
  /\ j \in DOMAIN proc
  /\ proc[j].pc = "analyze"
  /\ Len(proc[j].results) = proc[j].nframes
  /\ inserted <= proc[j].nframes
  /\ IF proc[j].nframes = 0
       THEN /\ db = "ok" /\ inserted = 0
            /\ UNCHANGED sentimentResults
            /\ AwaitUpdate(j, "completed", 10000)
            /\ proc' = [proc EXCEPT ![j].pc = "done"]
       ELSE IF db = "ok"
         THEN /\ inserted = proc[j].nframes
              /\ sentimentResults' = sentimentResults \o sentimentDocs(j)
              /\ AwaitUpdate(j, "completed", 10000)
              /\ proc' = [proc EXCEPT ![j].pc = "done"]
         ELSE /\ sentimentResults' =
                   sentimentResults \o SubSeq(sentimentDocs(j), 1, inserted)
              /\ Catch(j, "insertMany failed", Faults(j, "insert", db))
  /\ UNCHANGED <<env, videos, objects, req, resp>>
  /\ UNCHANGED annotationVars

\* -------------------------------------------------------------- annotations
\* A timestamp field of a request body: absent (above), a number, or a
\* string that parseFloat cannot read
Num(v) == <<"num", v>>
NotNumeric == <<"abc">>

\* parseFloat(ts) is a number (not NaN)
IsNumber(ts) == Len(ts) = 2 /\ ts[1] = "num"

\* a field that is a string, such as "00:01:05"
Str(chars) == <<"str", chars>>
IsString(ts) == Len(ts) = 2 /\ ts[1] = "str"

\* the longest prefix of a string that is made of digits
RECURSIVE leadingDigits(_)
leadingDigits(chars) ==
  IF chars = <<>> \/ ~IsDigit(chars[1]) THEN <<>>
  ELSE <<chars[1]>> \o leadingDigits(Tail(chars))

\* parseFloat(ts): a number is itself, a string is read up to its first
\* character that is no digit (the strings of the model have neither sign
\* nor decimal point), anything else is NaN
parseFloat(ts) ==
  IF IsNumber(ts) THEN ts
  ELSE IF IsString(ts) /\ leadingDigits(ts[2]) # <<>>
    THEN Num(decimalValue(leadingDigits(ts[2])))
  ELSE NaN

\* JavaScript !ts: the field is absent or is the number 0
falsy(ts) == ts = Absent \/ ts = Num(0) \/ ts = Str(<<>>)

\* a handler that only rejects a start after the end
parseFloatGeq_after(a, b) ==
  /\ parseFloat(a) # NaN /\ parseFloat(b) # NaN
  /\ parseFloat(a)[2] > parseFloat(b)[2]

\* parseFloat(a) >= parseFloat(b): false when either is NaN
parseFloatGeq(a, b) ==
  /\ parseFloat(a) # NaN /\ parseFloat(b) # NaN
  /\ parseFloat(a)[2] >= parseFloat(b)[2]

\* validateTimestamp(ts, name) throws
validateTimestampThrows(ts, duration) ==
  \/ parseFloat(ts) = NaN
  \/ parseFloat(ts)[2] < 0
  \/ parseFloat(ts)[2] > duration

AnnotationIds == 1..MaxAnnotations
\* an annotation id no create ever returned
UnknownAnnotation == 0

\* the bodies of POST /annotations/:videoId a client may send
TimestampValues == {Absent, Num(0), Num(3), Num(MaxDurationSeconds + 1)}
StartValues == {Absent, Num(0), Num(3), Num(5), NotNumeric}
EndValues == {Absent, Num(0), Num(3), Num(5), Num(MaxDurationSeconds + 1)}

CreateRequests ==
  [op : {"create"}, videoId : VideoIds \cup {UnknownVideo},
   annotationId : {UnknownAnnotation},
   type : {NULL, "moment", "interval", "note"}, label : {NULL, "x"},
   timestamp : TimestampValues, startTimestamp : StartValues,
   endTimestamp : EndValues]

\* PUT and DELETE /annotations/:videoId/:annotationId; the body of PUT
\* carries a label or none
UpdateRequests ==
  [op : {"update"}, videoId : VideoIds \cup {UnknownVideo},
   annotationId : AnnotationIds \cup {UnknownAnnotation},
   type : {NULL}, label : {NULL, "y"}, timestamp : {Absent},
   startTimestamp : {Absent}, endTimestamp : {Absent}]

DeleteRequests ==
  [op : {"delete"}, videoId : VideoIds \cup {UnknownVideo},
   annotationId : AnnotationIds \cup {UnknownAnnotation},
   type : {NULL}, label : {NULL}, timestamp : {Absent},
   startTimestamp : {Absent}, endTimestamp : {Absent}]

AnnotationRequests == CreateRequests \cup UpdateRequests \cup DeleteRequests

\* the requests clients send while jobs run: a well-formed moment annotation
\* for an uploaded video
MomentRequests ==
  {r \in CreateRequests :
     /\ r.videoId \in VideoIds /\ r.type = "moment" /\ r.label = "x"
     /\ r.timestamp = Num(3)
     /\ r.startTimestamp = Absent /\ r.endTimestamp = Absent}

\* a client sends an annotation request (requests of the upload and
\* annotation routers are taken one at a time; a create is taken while
\* fewer than MaxAnnotations annotations are stored)
AnnotationRequest(r) ==
  /\ annotationReq = NoAnnotationRequest
  /\ req = NoRequest
  /\ r.op = "create" => Cardinality(DOMAIN manualAnnotations) < MaxAnnotations
  /\ annotationReq' = r
  /\ UNCHANGED <<env, videos, analysisJobs, sentimentResults, objects, proc,
                 req, resp, manualAnnotations, analyzer, client, stats>>

\* the response of POST /annotations/:videoId, its checks in the order of
\* the handler; validateTimestamp throws into the catch block, which
\* answers 500
CreateResponse(r) ==
  IF r.videoId \notin DOMAIN videos THEN Response(404, "Video not found")
  ELSE IF r.type = NULL \/ r.label = NULL
    THEN Response(400, "Type and label are required fields")
  ELSE IF r.type \notin {"moment", "interval"}
    THEN Response(400, "Type must be either 'moment' or 'interval'")
  ELSE IF r.type = "moment" /\ falsy(r.timestamp)
    THEN Response(400, "Timestamp is required for moment annotations")
  ELSE IF r.type = "moment"
          /\ (~falsy(r.startTimestamp) \/ ~falsy(r.endTimestamp))
    THEN Response(400, "Start and end timestamps should not be provided for moment annotations")
  ELSE IF r.type = "interval"
          /\ (falsy(r.startTimestamp) \/ falsy(r.endTimestamp))
    THEN Response(400, "Start and end timestamps are required for interval annotations")
  ELSE IF r.type = "interval" /\ ~falsy(r.timestamp)
    THEN Response(400, "Timestamp should not be provided for interval annotations")
  ELSE IF r.type = "interval"
          /\ parseFloatGeq(r.startTimestamp, r.endTimestamp)
    THEN Response(400, "Start timestamp must be before end timestamp")
  ELSE IF \E ts \in {r.timestamp, r.startTimestamp, r.endTimestamp} :
            ~falsy(ts)
            /\ validateTimestampThrows(ts, videos[r.videoId].duration)
    THEN Response(500, "Failed to create annotation: timestamp must be between 0 and duration seconds")
  ELSE Response(201, NULL)

\* annotationDoc
annotationDoc(r) ==
  [video_id |-> r.videoId, type |-> r.type, label |-> r.label,
   timestamp |-> IF r.type = "moment" THEN r.timestamp ELSE Absent,
   start_timestamp |->
     IF r.type = "interval" THEN r.startTimestamp ELSE Absent,
   end_timestamp |-> IF r.type = "interval" THEN r.endTimestamp ELSE Absent]

\* findOne({_id: annotationId, video_id: videoId}) finds the annotation
annotationFound(r) ==
  /\ r.annotationId \in DOMAIN manualAnnotations
  /\ manualAnnotations[r.annotationId].video_id = r.videoId

\* the response of PUT /annotations/:videoId/:annotationId
UpdateResponse(r) ==
  IF ~annotationFound(r) THEN Response(404, "Annotation not found")
  ELSE IF r.label = NULL THEN Response(400, "Label is required")
  ELSE Response(200, NULL)

\* the response of DELETE /annotations/:videoId/:annotationId
DeleteResponse(r) ==
  IF ~annotationFound(r) THEN Response(404, "Annotation not found")
  ELSE Response(200, NULL)

\* POST /annotations/:videoId: insertOne when every check passed
CreateAnnotation ==
  LET r == annotationReq
      annotationId ==
        CHOOSE a \in AnnotationIds :
          /\ a \notin DOMAIN manualAnnotations
          /\ \A b \in AnnotationIds \ DOMAIN manualAnnotations : a <= b
  IN /\ r.op = "create"
     /\ resp' = CreateResponse(r)
     /\ annotationReq' = NoAnnotationRequest
     /\ IF CreateResponse(r).status = 201
          THEN manualAnnotations' =
                 [a \in DOMAIN manualAnnotations \cup {annotationId} |->
                    IF a = annotationId THEN annotationDoc(r)
                    ELSE manualAnnotations[a]]
          ELSE UNCHANGED manualAnnotations
     /\ UNCHANGED <<env, videos, analysisJobs, sentimentResults, objects,
                    proc, req, analyzer, client, stats>>

\* PUT /annotations/:videoId/:annotationId: $set of label (description and
\* color are not modelled)
UpdateAnnotation ==
  LET r == annotationReq
  IN /\ r.op = "update"
     /\ resp' = UpdateResponse(r)
     /\ annotationReq' = NoAnnotationRequest
     /\ IF UpdateResponse(r).status = 200
          THEN manualAnnotations' =
                 [manualAnnotations EXCEPT ![r.annotationId].label = r.label]
          ELSE UNCHANGED manualAnnotations
     /\ UNCHANGED <<env, videos, analysisJobs, sentimentResults, objects,
                    proc, req, analyzer, client, stats>>

\* DELETE /annotations/:videoId/:annotationId: deleteOne
DeleteAnnotation ==
  LET r == annotationReq
  IN /\ r.op = "delete"
     /\ resp' = DeleteResponse(r)
     /\ annotationReq' = NoAnnotationRequest
     /\ IF DeleteResponse(r).status = 200
          THEN manualAnnotations' =
                 [a \in DOMAIN manualAnnotations \ {r.annotationId} |->
                    manualAnnotations[a]]
          ELSE UNCHANGED manualAnnotations
     /\ UNCHANGED <<env, videos, analysisJobs, sentimentResults, objects,
                    proc, req, analyzer, client, stats>>

\* GET /annotations/:videoId and GET /annotations/:videoId/stats: the status
\* of the response
ListAnnotationsResponse(videoId) ==
  IF videoId \notin DOMAIN videos THEN Response(404, "Video not found")
  ELSE Response(200, NULL)

StatsResponse(videoId) ==
  IF videoId \notin DOMAIN videos THEN Response(404, "Video not found")
  ELSE Response(200, NULL)

\* GET /annotations/:videoId/stats is handled in two reads of the
\* collection: the aggregate gives the counts by type, countDocuments the
\* total.  pc is the handler's position, byType and total what it has read
NoStats == [pc |-> "idle", videoId |-> 0, byType |-> <<>>, total |-> 0]

\* $match {video_id}, $group {_id: "$type", count: {$sum: 1}}, reduced to
\* byType: the types that occur, each with its count
aggregateByType(videoId) ==
  LET ofVideo == {a \in DOMAIN manualAnnotations :
                    manualAnnotations[a].video_id = videoId}
      types == {manualAnnotations[a].type : a \in ofVideo}
  IN [t \in types |->
        Cardinality({a \in ofVideo : manualAnnotations[a].type = t})]

\* countDocuments({video_id})
countDocuments(videoId) ==
  Cardinality({a \in DOMAIN manualAnnotations :
                 manualAnnotations[a].video_id = videoId})

statsOnly ==
  <<env, videos, analysisJobs, sentimentResults, objects, proc, req,
    manualAnnotations, annotationReq, analyzer, client>>

\* the handler looks the video up and, when it exists, runs the aggregate
StatsAggregate(videoId) ==
  /\ stats.pc # "aggregated"
  /\ IF videoId \notin DOMAIN videos
       THEN /\ stats' = NoStats
            /\ resp' = StatsResponse(videoId)
       ELSE /\ stats' = [NoStats EXCEPT !.pc = "aggregated",
                                        !.videoId = videoId,
                                        !.byType = aggregateByType(videoId)]
            /\ UNCHANGED resp
  /\ UNCHANGED statsOnly

\* it counts the documents and answers {total, byType}
StatsCount ==
  /\ stats.pc = "aggregated"
  /\ stats' = [stats EXCEPT !.pc = "answered",
                            !.total = countDocuments(stats.videoId)]
  /\ resp' = StatsResponse(stats.videoId)
  /\ UNCHANGED statsOnly

\* ---------------------------------------- SentimentAnalyzer on its own
\* The analyzer is exercised apart from the server: single calls of its
\* pure methods, and one analyzeBatch followed await by await.
\*
\* A confidence is a pair <<numerator, denominator>>.

\* the value of a decimal digit
\* the decimal digits of Number.MAX_VALUE (about 1.8 * 10^308): a numeral
\* of more significant digits is read as Infinity
MaxFiniteDigits == 309

\* parseInt of a string of digits: NaN for the empty string, Infinity for
\* a numeral beyond the largest number, its value otherwise (exact for the
\* numerals of the model, which are far below 2^53)
parseInt(digits) ==
  IF digits = <<>> THEN NaN
  ELSE IF Len(significantDigits(digits)) > MaxFiniteDigits THEN Infinity
  ELSE Num(decimalValue(significantDigits(digits)))

\* parseInt(timestamp.replace(/[^\d]/g, "")) || 1: NaN and 0 are falsy
mockSeed(timestamp) ==
  LET seed == parseInt(SelectSeq(timestamp, IsDigit))
  IN IF seed = NaN \/ seed = Num(0) THEN Num(1) ELSE seed

\* random = ((seed * 9301 + 49297) % 233280) / 233280, in units of
\* 1 / 233280; Infinity % 233280 is NaN
mockRandom(seed) ==
  IF seed = Infinity THEN NaN
  ELSE Num((seed[2] * 9301 + 49297) % 233280)

\* the loop over the cumulative weights 0.3, 0.25, 0.15, 0.1, 0.15, 0.05:
\* the first sentiment with random <= cumulative, in units of 1/233280;
\* NaN <= cumulative is false every time, which leaves the initial "neutral"
sentiments == <<"happy", "neutral", "sad", "angry", "surprised", "fearful">>
cumulativeWeights == <<69984, 128304, 163296, 186624, 221616, 233280>>

selectedSentiment(random) ==
  IF random = NaN THEN "neutral"
  ELSE sentiments[CHOOSE i \in 1..6 :
                    /\ random[2] <= cumulativeWeights[i]
                    /\ \A k \in 1..(i - 1) : random[2] > cumulativeWeights[k]]

\* a mock with a confidence band twice as wide: 0.7 + random * 0.5
mockConfidence_wide(random) ==
  IF random = NaN THEN <<0, 0>>
  ELSE <<653184 + 2 * random[2], 933120>>

\* confidence: 0.7 + random * 0.25, which for random = m / 233280 is
\* (653184 + m) / 933120, and NaN, written 0 / 0, for random = NaN
mockConfidence(random) ==
  IF random = NaN THEN <<0, 0>>
  ELSE <<653184 + random[2], 933120>>

\* a mock that seeds its generator with the number of calls made as well
getMockSentiment_stateful(timestamp) ==
  LET seed == mockSeed(timestamp)
      random == mockRandom(IF seed = Infinity THEN seed
                           ELSE Num(seed[2] + Len(analyzer.mockCalls)))
  IN [timestamp |-> timestamp,
      sentiment |-> selectedSentiment(random),
      confidence |-> mockConfidence(random)]

\* SentimentAnalyzer.getMockSentiment
getMockSentiment(timestamp) ==
  LET random == mockRandom(mockSeed(timestamp))
  IN [timestamp |-> timestamp,
      sentiment |-> selectedSentiment(random),
      confidence |-> mockConfidence(random)]

\* the property names every object literal inherits from Object.prototype
\* (one of them stands for all), and what reading one of them returns
InheritedProperties == {"constructor"}
InheritedValue(name) == "function Object() { [native code] }"

\* emotionMapping[primaryEmotion.Type] || "neutral": the lookup in the
\* object literal finds the listed labels, then the properties the literal
\* inherits, which are truthy, and is undefined for every other label
emotionMapping(type) ==
  CASE type = "HAPPY" -> "happy"
    [] type = "SAD" -> "sad"
    [] type = "ANGRY" -> "angry"
    [] type = "SURPRISED" -> "surprised"
    [] type = "FEAR" -> "fearful"
    [] type = "DISGUSTED" -> "angry"
    [] type = "CONFUSED" -> "neutral"
    [] type = "CALM" -> "neutral"
    [] type \in InheritedProperties -> InheritedValue(type)
    [] OTHER -> "neutral"

\* parseFloat((Confidence / 100).toFixed(2)) for a provider confidence of
\* c tenths of a percent: c / 1000 rounded to hundredths; a value halfway
\* between two hundredths goes up or down with its binary representation
normalizedConfidence(c, up) ==
  IF c % 10 = 5 /\ ~up THEN <<c \div 10, 100>>
  ELSE <<RoundDiv(c, 10), 100>>

\* what detectFaces can answer for a frame: it errors, it finds no emotion,
\* or it finds a primary emotion (Confidence in tenths of a percent)
ProviderErrors == {[kind |-> "error", Type |-> NULL, Confidence |-> 0]}
ProviderAnswers ==
  {[kind |-> "noface", Type |-> NULL, Confidence |-> 0]}
    \cup [kind : {"face"}, Type : {"HAPPY", "DISGUSTED"},
          Confidence : {0, 995, 1000}]

\* emotions.reduce((prev, current) =>
\*   prev.Confidence > current.Confidence ? prev : current)
RECURSIVE reduce(_, _)
reduce(prev, emotions) ==
  IF emotions = <<>> THEN prev
  ELSE reduce(IF prev.Confidence > Head(emotions).Confidence THEN prev
              ELSE Head(emotions),
              Tail(emotions))

primaryEmotion(emotions) == reduce(Head(emotions), Tail(emotions))

\* the labels detectFaces answers with: the provider's nine, and a label
\* that names an inherited property
EmotionTypes ==
  {"HAPPY", "SAD", "ANGRY", "CONFUSED", "DISGUSTED", "SURPRISED", "CALM",
   "UNKNOWN", "FEAR"} \cup InheritedProperties

\* the emotions of the first face of a response, none when no face was
\* found: data.FaceDetails[0]?.Emotions || []
MaxEmotions == 2
Emotion == [Type : EmotionTypes, Confidence : {0, 995, 1000}]
EmotionLists ==
  UNION {[1..k -> Emotion] : k \in 0..MaxEmotions}

\* what analyzeFrame makes of the emotions of a response
answerOf(emotions) ==
  IF emotions = <<>> THEN [kind |-> "noface", Type |-> NULL, Confidence |-> 0]
  ELSE [kind |-> "face", Type |-> primaryEmotion(emotions).Type,
        Confidence |-> primaryEmotion(emotions).Confidence]

\* the result analyzeFrame returns once the image upload has settled and
\* the provider, outside mock mode, has answered
analyzeFrameResult(timestamp, imageUrl, answer, up) ==
  LET mock == getMockSentiment(timestamp)
  IN IF mockMode \/ answer.kind = "error"
       THEN [timestamp |-> timestamp, sentiment |-> mock.sentiment,
             confidence |-> mock.confidence, imageUrl |-> imageUrl]
     ELSE IF answer.kind = "noface"
       THEN [timestamp |-> timestamp, sentiment |-> "neutral",
             confidence |-> <<10, 100>>, imageUrl |-> imageUrl]
     ELSE [timestamp |-> timestamp,
           sentiment |-> emotionMapping(answer.Type),
           confidence |-> normalizedConfidence(answer.Confidence, up),
           imageUrl |-> imageUrl]

NoSample ==
  [timestamp |-> <<>>, sentiment |-> NULL, confidence |-> <<0, 0>>,
   imageUrl |-> NullKey]
NoCall ==
  [fn |-> NULL, arg |-> 0, result |-> <<>>, emotions |-> <<>>,
   sample |-> NoSample]

\* the analyzer before any call: call is the last single call, mockCalls
\* the results of the getMockSentiment calls made so far; of the running
\* analyzeBatch, n is frameData.length, started the frames the loop has
\* handed to analyzeFrame, uploading and classifying the frames whose
\* image upload and whose detectFaces call are pending, imageUrl what the
\* image uploads left, results the array
NoAnalyzer ==
  [call |-> NoCall, mockCalls |-> <<>>, n |-> 0, started |-> 0,
   uploading |-> {}, classifying |-> {}, imageUrl |-> <<>>,
   results |-> <<>>, uploadFailed |-> {}, classifyFailed |-> {}]

\* no call of the analyzer has been made
Idle == analyzer = NoAnalyzer

serverVars ==
  <<env, videos, analysisJobs, sentimentResults, objects, proc, req, resp,
    manualAnnotations, annotationReq, client, stats>>

\* frameToTimestamp(frameNumber) is called
CallFrameToTimestamp(frameNumber) ==
  /\ Idle
  /\ analyzer' = [analyzer EXCEPT
                    !.call = [NoCall EXCEPT
                                !.fn = "frameToTimestamp",
                                !.arg = frameNumber,
                                !.result = frameToTimestamp(frameNumber)]]
  /\ UNCHANGED serverVars

\* analyzeFrame is called outside mock mode for the frame of timestamp
\* 00:00:01 and detectFaces answers with the emotions
CallAnalyzeFrame(emotions, up) ==
  /\ Idle
  /\ ~mockMode
  /\ analyzer' = [analyzer EXCEPT
                    !.call = [NoCall EXCEPT
                                !.fn = "analyzeFrame",
                                !.emotions = emotions,
                                !.sample =
                                  analyzeFrameResult(frameToTimestamp(1),
                                                     NullKey,
                                                     answerOf(emotions), up)]]
  /\ UNCHANGED serverVars

\* the confidence of a mapped provider result is computed
CallNormalizedConfidence(c, up) ==
  /\ Idle
  /\ analyzer' = [analyzer EXCEPT
                    !.call = [NoCall EXCEPT
                                !.fn = "normalizedConfidence",
                                !.arg = c,
                                !.result = normalizedConfidence(c, up)]]
  /\ UNCHANGED serverVars

\* a string of digits too long to be read as a finite number
LongNumeral == [i \in 1..(MaxFiniteDigits + 1) |-> "9"]

\* the timestamps getMockSentiment is called with: those of the first
\* frames, strings without a digit, and a numeral read as Infinity
MockTimestamps ==
  {frameToTimestamp(n) : n \in 0..MaxMockFrame}
    \cup {<<>>, <<"a", ":">>, LongNumeral}

\* getMockSentiment(timestamp) is called
CallGetMockSentiment(timestamp) ==
  /\ analyzer.call = NoCall /\ analyzer.n = 0
  /\ Len(analyzer.mockCalls) < MaxMockCalls
  /\ analyzer' = [analyzer EXCEPT
                    !.mockCalls = Append(@, getMockSentiment(timestamp))]
  /\ UNCHANGED serverVars

\* the frames of a batch in flight: inside analyzeFrame
InFlight == analyzer.uploading \cup analyzer.classifying

\* analyzeBatch(frameData, onProgress) is called with n frames, which
\* extractFrames has indexed 1..n
BatchCall(n) ==
  /\ Idle
  /\ n > 0
  /\ analyzer' = [analyzer EXCEPT !.n = n]
  /\ UNCHANGED serverVars

\* a loop that hands the frames to analyzeFrame without awaiting any
FrameStart_fanOut ==
  /\ analyzer.started < analyzer.n
  /\ analyzer' = [analyzer EXCEPT !.started = @ + 1,
                                  !.uploading = @ \cup {analyzer.started + 1}]
  /\ UNCHANGED serverVars

\* the loop hands the next frame to analyzeFrame, which starts the image
\* upload: the await of the loop has let the frame before it return
FrameStart ==
  /\ analyzer.started < analyzer.n
  /\ InFlight = {}
  /\ analyzer' = [analyzer EXCEPT !.started = @ + 1,
                                  !.uploading = @ \cup {analyzer.started + 1}]
  /\ UNCHANGED serverVars

\* the result of frame i is pushed
pushResult(i, imageUrl, answer, up) ==
  Append(analyzer.results,
         analyzeFrameResult(frameToTimestamp(i), imageUrl, answer, up))

\* the image upload of frame i settles.  In mock mode analyzeFrame returns
\* the mock result at once; otherwise it calls detectFaces.  uploadFailed
\* remembers the frames whose upload was refused by the store
ImageUploadEnd(i, s3) ==
  LET imageUrl == frameImageUrl(<<"screenshots/", i>>, s3)
      refused == IF useS3 /\ s3 = "error" THEN {i} ELSE {}
  IN /\ i \in analyzer.uploading
     /\ IF mockMode
          THEN analyzer' =
                 [analyzer EXCEPT
                    !.uploading = @ \ {i},
                    !.uploadFailed = @ \cup refused,
                    !.results = pushResult(i, imageUrl,
                                           CHOOSE e \in ProviderErrors : TRUE,
                                           TRUE)]
          ELSE analyzer' =
                 [analyzer EXCEPT
                    !.uploading = @ \ {i},
                    !.uploadFailed = @ \cup refused,
                    !.classifying = @ \cup {i},
                    !.imageUrl = imageUrl]
     /\ UNCHANGED serverVars

\* an analyzeFrame that lets the failure of detectFaces out: analyzeBatch
\* catches it and goes on to the next frame without a result
ClassifyEnd_throws(i, answer, up) ==
  /\ i \in analyzer.classifying
  /\ analyzer' =
       [analyzer EXCEPT
          !.classifying = @ \ {i},
          !.imageUrl = <<>>,
          !.classifyFailed =
             IF answer.kind = "error" THEN @ \cup {i} ELSE @,
          !.results =
             IF answer.kind = "error" THEN @
             ELSE pushResult(i, analyzer.imageUrl, answer, up)]
  /\ UNCHANGED serverVars

\* detectFaces of frame i settles and analyzeFrame returns.  classifyFailed
\* remembers the frames for which detectFaces failed
ClassifyEnd(i, answer, up) ==
  /\ i \in analyzer.classifying
  /\ analyzer' = [analyzer EXCEPT
                    !.classifying = @ \ {i},
                    !.imageUrl = <<>>,
                    !.classifyFailed =
                       IF answer.kind = "error" THEN @ \cup {i} ELSE @,
                    !.results = pushResult(i, analyzer.imageUrl, answer, up)]
  /\ UNCHANGED serverVars

\* ------------------------------------------- useVideoAnalysis (the client)
\* pollProcessingStatus: poll every 2 seconds, 300 attempts at most
pollInterval == 2000
maxAttempts == 300

\* processVideo from its step 4 on: pc is its position (it has not called
\* pollProcessingStatus, it awaits it, it awaits getAnalysisResults, it is
\* done), promise the state of the promise pollProcessingStatus returned,
\* request whether a status request is in flight, timer the delay of the
\* armed setTimeout(poll) or 0, awaited whether the poll running is the one
\* pollProcessingStatus awaits, analysis the analysis displayed.
\* reportedCompleted and reportedEnd remember what the responses reported
NoClient ==
  [pc |-> "idle", promise |-> "pending", attempts |-> 0, request |-> FALSE,
   timer |-> 0, awaited |-> TRUE, analysis |-> "initial",
   reportedCompleted |-> FALSE, reportedEnd |-> FALSE]

\* what the status endpoint can answer: the request fails (a status outside
\* 2xx, or no answer), or it carries the job's status and error_message
StatusResponses ==
  {[ok |-> FALSE, status |-> NULL, error |-> NULL]}
    \cup [ok : {TRUE}, status : {"processing", "completed", "failed"},
          error : {NULL, "ffmpeg exited"}]

\* a response after which poll throws before it looks at the status
carriesError(r) == ~r.ok \/ r.error # NULL

\* a poll without the ceiling on the attempts
pollOutcome_noCeiling(r, attempts) ==
  IF carriesError(r) THEN "throw"
  ELSE IF r.status = "completed" THEN "return"
  ELSE IF r.status = "failed" THEN "throw"
  ELSE "setTimeout"

\* the body of poll once the response is there: it throws, it returns, or
\* it arms the timer for the next poll and returns
pollOutcome(r, attempts) ==
  IF carriesError(r) THEN "throw"
  ELSE IF r.status = "completed" THEN "return"
  ELSE IF r.status = "failed" THEN "throw"
  ELSE IF attempts >= maxAttempts THEN "throw"
  ELSE "setTimeout"

clientOnly ==
  <<env, videos, analysisJobs, sentimentResults, objects, proc, req, resp,
    manualAnnotations, annotationReq, analyzer, stats>>

\* processVideo step 4: await pollProcessingStatus(videoId, jobId), which
\* awaits the first poll(); poll counts the attempt and sends the request
PollProcessingStatus ==
  /\ client.pc = "idle"
  /\ client' = [client EXCEPT !.pc = "polling", !.attempts = 1,
                              !.request = TRUE]
  /\ UNCHANGED clientOnly

\* the timer fires and calls poll, whose promise nobody holds
TimerFires ==
  /\ client.timer # 0
  /\ client' = [client EXCEPT !.timer = 0, !.attempts = @ + 1,
                              !.request = TRUE, !.awaited = FALSE]
  /\ UNCHANGED clientOnly

\* the promise of pollProcessingStatus is that of `await poll()`, the first
\* poll: it rejects when that poll throws and resolves when it returns,
\* which it does after arming the timer too
settle(promise, awaited, outcome) ==
  IF ~awaited \/ promise # "pending" THEN promise
  ELSE IF outcome = "throw" THEN "rejected"
  ELSE "resolved"

\* the response to the status request arrives and poll runs to its end
StatusArrives(r) ==
  LET outcome == pollOutcome(r, client.attempts)
  IN /\ client.request
     /\ client' =
          [client EXCEPT
             !.request = FALSE,
             !.timer = IF outcome = "setTimeout" THEN pollInterval ELSE 0,
             !.promise = settle(@, client.awaited, outcome),
             !.reportedCompleted =
                @ \/ (r.ok /\ r.error = NULL /\ r.status = "completed"),
             !.reportedEnd =
                @ \/ carriesError(r) \/ r.status \in {"completed", "failed"}]
     /\ UNCHANGED clientOnly

\* processVideo goes on after the await: step 5 requests the results, or
\* the catch shows the error of the polling
PollSettled ==
  /\ client.pc = "polling"
  /\ client.promise # "pending"
  /\ client' = [client EXCEPT
                  !.pc = IF client.promise = "resolved" THEN "results"
                         ELSE "done"]
  /\ UNCHANGED clientOnly

\* GET /upload/:videoId/results answers and setAnalysis replaces the
\* analysis displayed, or getAnalysisResults throws and the catch shows it
ResultsArrive(ok) ==
  /\ client.pc = "results"
  /\ client' = [client EXCEPT
                  !.pc = "done",
                  !.analysis = IF ok THEN "results" ELSE @]
  /\ UNCHANGED clientOnly

\* --------------------------------------- useManualAnnotations (the client)
\* secondsToTimestamp(seconds), for whole seconds
secondsToTimestamp(seconds) ==
  <<"0", "0", ":">> \o padStart(toString(seconds \div 60), 2)
    \o <<":">> \o padStart(toString(seconds % 60), 2)

\* timestamp.split(":")
RECURSIVE split(_)
split(chars) ==
  IF \A i \in 1..Len(chars) : chars[i] # ":" THEN <<chars>>
  ELSE LET i == CHOOSE k \in 1..Len(chars) :
                  chars[k] = ":" /\ \A l \in 1..(k - 1) : chars[l] # ":"
       IN <<SubSeq(chars, 1, i - 1)>>
            \o split(SubSeq(chars, i + 1, Len(chars)))

\* parseInt(parts[k] || "0"), parts[k] being a string of digits
partValue(parts, k) ==
  IF Len(parts) < k \/ parts[k] = <<>> THEN Num(0) ELSE parseInt(parts[k])

\* timestampToSeconds(timestamp): minutes * 60 + seconds
timestampToSeconds(timestamp) ==
  LET parts == split(timestamp)
      minutes == partValue(parts, 2)
      seconds == partValue(parts, 3)
  IN IF IsNumber(minutes) /\ IsNumber(seconds)
       THEN Num(minutes[2] * 60 + seconds[2])
     ELSE NaN

\* the whole seconds the annotation form is filled with
MaxHookSeconds == 125
HookSeconds == 0..MaxHookSeconds
HookIntervalSeconds == {0, 3, 5, 61, MaxDurationSeconds}

\* the form data of createAnnotation
HookFormData ==
  [type : {"moment"}, timestamp : HookSeconds, startTimestamp : {0},
   endTimestamp : {0}]
    \cup [type : {"interval"}, timestamp : {0},
          startTimestamp : HookIntervalSeconds,
          endTimestamp : HookIntervalSeconds]

\* the payload createAnnotation posts: the seconds as 00:MM:SS strings
payload(formData) ==
  [op |-> "create", videoId |-> 1, annotationId |-> 0,
   type |-> formData.type, label |-> "x",
   timestamp |->
     IF formData.type = "moment"
       THEN Str(secondsToTimestamp(formData.timestamp)) ELSE Absent,
   startTimestamp |->
     IF formData.type = "interval"
       THEN Str(secondsToTimestamp(formData.startTimestamp)) ELSE Absent,
   endTimestamp |->
     IF formData.type = "interval"
       THEN Str(secondsToTimestamp(formData.endTimestamp)) ELSE Absent]

\* createAnnotation(formData) posts its payload
HookCreateAnnotation(formData) == AnnotationRequest(payload(formData))

\* the seconds the hook shows for a field of an annotation the server
\* returned: field ? timestampToSeconds(field) : undefined
shownSeconds(field) ==
  IF falsy(field) THEN Absent ELSE timestampToSeconds(field[2])

\* ------------------------------------------------------------ specification
Init ==
  /\ env \in Environments
  /\ videos = <<>>
  /\ analysisJobs = <<>>
  /\ sentimentResults = <<>>
  /\ objects = {}
  /\ proc = <<>>
  /\ req = NoRequest
  /\ resp = NoResponse
  /\ manualAnnotations = <<>>
  /\ annotationReq = NoAnnotationRequest
  /\ analyzer = NoAnalyzer
  /\ client = NoClient
  /\ stats = NoStats

Outcomes == {"ok", "error"}

Next ==
  \/ \E r \in Requests : UploadRequest(r)
  \/ \E probe \in ProbeOutcomes, s3 \in S3Outcomes : Upload(probe, s3)
  \/ \E v \in DOMAIN videos \cup {UnknownVideo} : Process(v)
  \/ \E j \in DOMAIN proc : Lookup(j)
  \/ \E j \in DOMAIN proc, s3 \in S3Outcomes : Download(j, s3)
  \/ \E j \in DOMAIN proc, p \in PctValues : CompressProgress(j, p)
  \/ \E j \in DOMAIN proc, ffmpeg \in Outcomes : CompressEnd(j, ffmpeg)
  \/ \E j \in DOMAIN proc, s3 \in S3Outcomes : UploadCompressed(j, s3)
  \/ \E j \in DOMAIN proc, p \in PctValues : ExtractProgress(j, p)
  \/ \E j \in DOMAIN proc, ffmpeg \in Outcomes, n \in 0..MaxFrames :
        ExtractEnd(j, ffmpeg, n)
  \/ \E j \in DOMAIN proc, s3 \in S3Outcomes : AnalyzeFrame(j, s3)
  \/ \E j \in DOMAIN proc, db \in Outcomes, k \in 0..MaxFrames : Persist(j, db, k)
  \/ \E j \in DOMAIN proc : \E w \in proc[j].inflight : LandWrite(j, w)

Spec == Init /\ [][Next]_vars

\* the upload router and the pipeline while a client annotates the video
ServerNext ==
  \/ Next
  \/ \E r \in MomentRequests : AnnotationRequest(r)
  \/ CreateAnnotation

ServerSpec == Init /\ [][ServerNext]_vars

\* the upload and annotation routers without the pipeline: every request a
\* client may send
AnnotationNext ==
  \/ \E r \in Requests : UploadRequest(r)
  \/ \E probe \in ProbeOutcomes, s3 \in S3Outcomes : Upload(probe, s3)
  \/ \E r \in AnnotationRequests : AnnotationRequest(r)
  \/ CreateAnnotation
  \/ UpdateAnnotation
  \/ DeleteAnnotation

AnnotationSpec == Init /\ [][AnnotationNext]_vars

\* the annotation router while clients create and delete annotations and ask
\* for the statistics
StatsNext ==
  \/ \E r \in Requests : UploadRequest(r)
  \/ \E probe \in ProbeOutcomes, s3 \in S3Outcomes : Upload(probe, s3)
  \/ \E r \in MomentRequests \cup DeleteRequests : AnnotationRequest(r)
  \/ CreateAnnotation
  \/ DeleteAnnotation
  \/ \E v \in VideoIds \cup {UnknownVideo} : StatsAggregate(v)
  \/ StatsCount

StatsSpec == Init /\ [][StatsNext]_vars

\* the annotation router serving the useManualAnnotations hook
HookNext ==
  \/ \E r \in Requests : UploadRequest(r)
  \/ \E probe \in ProbeOutcomes, s3 \in S3Outcomes : Upload(probe, s3)
  \/ \E formData \in HookFormData : HookCreateAnnotation(formData)
  \/ CreateAnnotation

HookSpec == Init /\ [][HookNext]_vars

\* the analyzer on its own
AnalyzerNext ==
  \/ \E n \in (1..MaxFrameNumber) \cup {LongFrameNumber} :
        CallFrameToTimestamp(n)
  \/ \E c \in 0..MaxConfidence, up \in BOOLEAN :
        CallNormalizedConfidence(c, up)
  \/ \E ts \in MockTimestamps : CallGetMockSentiment(ts)
  \/ \E emotions \in EmotionLists, up \in BOOLEAN :
        CallAnalyzeFrame(emotions, up)
  \/ \E n \in 1..MaxBatchFrames : BatchCall(n)
  \/ FrameStart
  \/ \E i \in 1..MaxBatchFrames, s3 \in S3Outcomes : ImageUploadEnd(i, s3)
  \/ \E i \in 1..MaxBatchFrames, answer \in ProviderErrors \cup ProviderAnswers,
        up \in BOOLEAN : ClassifyEnd(i, answer, up)

AnalyzerSpec == Init /\ [][AnalyzerNext]_vars

\* the client polling a job and fetching its results
ClientNext ==
  \/ PollProcessingStatus
  \/ TimerFires
  \/ \E r \in StatusResponses : StatusArrives(r)
  \/ PollSettled
  \/ \E ok \in BOOLEAN : ResultsArrive(ok)

ClientSpec == Init /\ [][ClientNext]_vars

\* the event loop runs the timers that are due and the continuations that
\* are ready, and every request is answered or fails
ClientLiveSpec ==
  /\ ClientSpec
  /\ WF_vars(TimerFires)
  /\ WF_vars(\E r \in StatusResponses : StatusArrives(r))
  /\ WF_vars(PollSettled)
  /\ WF_vars(\E ok \in BOOLEAN : ResultsArrive(ok))

\* ------------------------------------------------------------ GET endpoints
\* GET /upload/:videoId/status/:jobId
StatusResponse(videoId, jobId) ==
  IF jobId \in DOMAIN analysisJobs /\ analysisJobs[jobId].video_id = videoId
    THEN [code |-> 200,
          status |-> analysisJobs[jobId].status,
          progress |-> analysisJobs[jobId].progress,
          error |-> analysisJobs[jobId].error_message]
    ELSE [code |-> 404, status |-> NULL, progress |-> 0,
          error |-> "Job not found"]

\* the order of the characters a timestamp is made of
CharCode(c) ==
  CHOOSE i \in 1..11 : (Digits \o <<":">>)[i] = c

\* a <= b in the order sort({timestamp: 1}) gives strings
RECURSIVE StringLeq(_, _)
StringLeq(a, b) ==
  IF a = <<>> THEN TRUE
  ELSE IF b = <<>> THEN FALSE
  ELSE IF CharCode(Head(a)) # CharCode(Head(b))
    THEN CharCode(Head(a)) < CharCode(Head(b))
  ELSE StringLeq(Tail(a), Tail(b))

\* doc put into a sequence sorted by timestamp, after its equals
RECURSIVE InsertSorted(_, _)
InsertSorted(sorted, doc) ==
  IF sorted = <<>> THEN <<doc>>
  ELSE IF StringLeq(Head(sorted).timestamp, doc.timestamp)
    THEN <<Head(sorted)>> \o InsertSorted(Tail(sorted), doc)
  ELSE <<doc>> \o sorted

RECURSIVE SortByTimestamp(_)
SortByTimestamp(docs) ==
  IF docs = <<>> THEN <<>>
  ELSE InsertSorted(SortByTimestamp(SubSeq(docs, 1, Len(docs) - 1)),
                    docs[Len(docs)])

\* GET /upload/:videoId/results: the sentiments array of the response
ResultsSentiments(videoId) ==
  LET OfVideo(doc) == doc.video_id = videoId
      sorted == SortByTimestamp(SelectSeq(sentimentResults, OfVideo))
  IN [k \in 1..Len(sorted) |->
        [timestamp |-> sorted[k].timestamp, imageUrl |-> sorted[k].imageUrl]]

\* GET /upload/:videoId/results: the status of the response
ResultsResponse(videoId) ==
  IF videoId \notin DOMAIN videos THEN Response(404, "Video not found")
  ELSE Response(200, NULL)

\* GET /upload/:videoId/results: the `status` of the body of a 200, which
\* is the literal "completed" whatever the jobs of the video are
ResultsStatus(videoId) == "completed"

\* the ids of a set of videos by created_at, latest first (ids are given in
\* the order of creation)
RECURSIVE SortByCreatedAtDesc(_)
SortByCreatedAtDesc(ids) ==
  IF ids = {} THEN <<>>
  ELSE LET latest == CHOOSE v \in ids : \A u \in ids : u <= v
       IN <<latest>> \o SortByCreatedAtDesc(ids \ {latest})

\* GET /upload/history: $match status processed, $lookup of the video's
\* sentiment_results, $size, $sort created_at descending
history ==
  LET matched == SortByCreatedAtDesc(
                   {v \in DOMAIN videos : videos[v].status = "processed"})
  IN [k \in 1..Len(matched) |->
        [id |-> matched[k],
         sentimentCount |->
           Cardinality({i \in 1..Len(sentimentResults) :
                          sentimentResults[i].video_id = matched[k]})]]

\* ------------------------------------------------------------------- claims
Terminal(doc) == doc.status \in {"completed", "failed"}

\* the pipeline of job j has returned and none of its writes is in flight
Settled(j) == proc[j].pc = "done" /\ proc[j].inflight = {}

\* the sentiment documents job j inserted
InsertedBy(j) ==
  {k \in 1..Len(sentimentResults) : sentimentResults[k].job = j}

\* C1: when a stage of a job's pipeline has raised, the job record ends
\* with status failed and the message of the error: once the pipeline has
\* stopped and its writes have been applied, the job is not left in a
\* non-terminal status.
C1_FailureIsRecorded ==
  \A j \in DOMAIN proc :
    (Settled(j) /\ proc[j].error # NULL) =>
      /\ analysisJobs[j].status = "failed"
      /\ analysisJobs[j].error_message = proc[j].error

\* C2: until a job is completed or failed, the progress stored in its
\* record never decreases from one write to the next.
C2_ProgressNonDecreasing ==
  [][\A j \in DOMAIN analysisJobs :
       ~Terminal(analysisJobs[j]) =>
         analysisJobs'[j].progress >= analysisJobs[j].progress]_vars

\* C3: once a job record's status is completed or failed, no later write
\* changes its status or its progress.
C3_TerminalIsFinal ==
  [][\A j \in DOMAIN analysisJobs :
       Terminal(analysisJobs[j]) =>
         /\ analysisJobs'[j].status = analysisJobs[j].status
         /\ analysisJobs'[j].progress = analysisJobs[j].progress]_vars

\* C4: a job for an uploaded video whose original is in the object store,
\* and whose external calls all succeeded, ends with status completed and
\* progress 100, which is what the status endpoint then returns.
C4_SuccessEndsCompleted ==
  \A j \in DOMAIN proc :
    (/\ Settled(j)
     /\ proc[j].faults = {}
     /\ analysisJobs[j].video_id \in DOMAIN videos
     /\ proc[j].key \in objects) =>
      LET r == StatusResponse(analysisJobs[j].video_id, j)
      IN r.status = "completed" /\ r.progress = 10000

\* the jobs started for video v
JobsOf(v) == {j \in DOMAIN proc : analysisJobs[j].video_id = v}

\* the pipeline of job j ran to the end without raising
Completed(j) == proc[j].pc = "done" /\ proc[j].error = NULL

\* C5: after the jobs of a video have completed, N frames having been
\* extracted, the results endpoint returns exactly N samples, one per
\* frame, with the timestamps of frames 1..N in this order.
C5_ResultsAreTheFrames ==
  \A v \in DOMAIN videos : \A n \in 0..MaxFrames :
    (/\ JobsOf(v) # {}
     /\ \A j \in JobsOf(v) : Completed(j) /\ proc[j].nframes = n) =>
      LET returned == ResultsSentiments(v)
      IN /\ Len(returned) = n
         /\ \A k \in 1..n : returned[k].timestamp = frameToTimestamp(k)

\* C6 (as claimed): the status of a job record is one of processing,
\* completed, failed.
C6_StatusOneOfThree ==
  \A j \in DOMAIN analysisJobs :
    analysisJobs[j].status \in {"processing", "completed", "failed"}

\* C6 (amended): the status of a job record is one of processing,
\* compressing, uploading, analyzing, completed, failed.
C6_StatusOneOfSix ==
  \A j \in DOMAIN analysisJobs :
    analysisJobs[j].status \in
      {"processing", "compressing", "uploading", "analyzing", "completed",
       "failed"}

\* a job record carries each of the three stage names as its status
C6_Witness ==
  /\ 2 \in DOMAIN analysisJobs
  /\ analysisJobs[1].status = "failed"
  /\ analysisJobs[2].status \in {"compressing", "uploading", "analyzing"}

\* C7 (as claimed): the progress of a job record is an integer between 0
\* and 100.
C7_ProgressIntegerInRange ==
  \A j \in DOMAIN analysisJobs :
    /\ analysisJobs[j].progress % 100 = 0
    /\ 0 <= analysisJobs[j].progress
    /\ analysisJobs[j].progress <= 100 * 100

\* C7 (amended): the progress of a job record is a number between 0 and
\* 100, for percentages between 0 and 100 reported to the callbacks.
C7_ProgressInRange ==
  \A j \in DOMAIN analysisJobs :
    /\ 0 <= analysisJobs[j].progress
    /\ analysisJobs[j].progress <= 100 * 100

\* the callbacks have stored a fraction (20.2) and the top of the analysis
\* band (95)
C7_Witness ==
  /\ 2 \in DOMAIN analysisJobs
  /\ analysisJobs[1].progress = 2020
  /\ analysisJobs[2].progress = 9500

\* C8 (as claimed): a job that ended by raising has inserted no sentiment
\* sample.
C8_FailedJobInsertedNothing ==
  \A j \in DOMAIN proc :
    (proc[j].pc = "done" /\ proc[j].error # NULL) => InsertedBy(j) = {}

\* C8 (amended): a job has inserted sentiment samples only if its pipeline
\* has reached the bulk insert: a job that still runs, or that raised in a
\* stage before the bulk insert, has inserted none; a job that raised in
\* the bulk insert itself may have inserted some.
C8_RowsOnlyFromBulkInsert ==
  \A j \in DOMAIN proc :
    InsertedBy(j) # {} =>
      /\ proc[j].pc = "done"
      /\ proc[j].error \in {NULL, "insertMany failed"}

\* a job raised after its frames were extracted while the samples of an
\* earlier job of the same video are stored
C8_Witness ==
  \E j \in DOMAIN proc :
    /\ analysisJobs[j].video_id \in DOMAIN videos
    /\ proc[j].pc = "done"
    /\ proc[j].error \notin {NULL, "insertMany failed"}
    /\ InsertedBy(j) = {}
    /\ Len(sentimentResults) > 0

\* C9: an error of the transcoder or of the object store (the download, the
\* upload of the transcoded video) aborts the job: the pipeline stops with
\* the error, so the video is not marked processed, no frame is classified
\* and nothing is inserted by that job.
C9_ExternalErrorAborts ==
  \A j \in DOMAIN proc :
    proc[j].faults \cap {"download", "compress", "upload", "extract"} # {} =>
      /\ proc[j].pc = "done"
      /\ proc[j].error # NULL
      /\ proc[j].results = <<>>
      /\ InsertedBy(j) = {}

UploadHandled == req # NoRequest /\ req' = NoRequest

\* an annotation request is handled in this step
AnnotationHandled ==
  annotationReq # NoAnnotationRequest /\ annotationReq' = NoAnnotationRequest

\* an upload the validation has to reject
InvalidUpload(file) ==
  \/ file.mimetype \notin {"video/mp4", "video/webm", "video/quicktime"}
  \/ file.size > 100 * 1024 * 1024
  \/ file.duration > 120

\* ts is a number within [0, duration]
WithinDuration(ts, duration) ==
  IsNumber(ts) /\ 0 <= ts[2] /\ ts[2] <= duration

\* a create body that is malformed: type or label missing or invalid, the
\* timestamps its type needs missing, not numbers or outside
\* [0, duration], or an interval that does not start before its end
MalformedAnnotation(r, duration) ==
  \/ r.type \notin {"moment", "interval"}
  \/ r.label = NULL
  \/ /\ r.type = "moment"
     /\ ~WithinDuration(r.timestamp, duration)
  \/ /\ r.type = "interval"
     /\ \/ ~WithinDuration(r.startTimestamp, duration)
        \/ ~WithinDuration(r.endTimestamp, duration)
        \/ r.startTimestamp[2] >= r.endTimestamp[2]

\* the stored records
stored == <<videos, analysisJobs, sentimentResults, manualAnnotations>>

\* C11: every input-validation failure (a disallowed MIME type, an
\* oversize file, a duration over the ceiling, a malformed annotation) is
\* answered with a 4xx status and a message, and changes no stored record.
C11_ValidationFailuresAre4xx ==
  /\ [][(UploadHandled /\ InvalidUpload(req)
           /\ resp'.error # "Upload failed: ffprobe") =>
          /\ resp'.status \in 400..499
          /\ resp'.error # NULL
          /\ stored' = stored]_vars
  /\ [][(/\ AnnotationHandled
         /\ annotationReq.op = "create"
         /\ annotationReq.videoId \in DOMAIN videos
         /\ MalformedAnnotation(annotationReq,
                                videos[annotationReq.videoId].duration)) =>
          /\ resp'.status \in 400..499
          /\ resp'.error # NULL
          /\ stored' = stored]_vars
  /\ [][(AnnotationHandled /\ annotationReq.op = "update"
           /\ annotationFound(annotationReq)
           /\ annotationReq.label = NULL) =>
          /\ resp'.status \in 400..499
          /\ stored' = stored]_vars

\* C12: every endpoint given an unknown video id, job id or annotation id
\* answers 404: the status and results endpoints, the annotation list,
\* stats, create, update and delete endpoints, and the process endpoint
\* called with a video id that was never uploaded.
C12_UnknownIdsAnswer404 ==
  /\ [](\A v \in (VideoIds \cup {UnknownVideo}) \ DOMAIN videos :
          /\ ResultsResponse(v).status = 404
          /\ ListAnnotationsResponse(v).status = 404
          /\ StatsResponse(v).status = 404
          /\ \A j \in JobIds : StatusResponse(v, j).code = 404)
  /\ [](\A v \in VideoIds \cup {UnknownVideo} :
          \A j \in JobIds \ DOMAIN analysisJobs :
            StatusResponse(v, j).code = 404)
  /\ [][(AnnotationHandled /\ annotationReq.op = "create"
           /\ annotationReq.videoId \notin DOMAIN videos) =>
          resp'.status = 404]_vars
  /\ [][(AnnotationHandled /\ annotationReq.op \in {"update", "delete"}
           /\ annotationReq.annotationId \notin DOMAIN manualAnnotations) =>
          resp'.status = 404]_vars
  /\ [][\A j \in DOMAIN analysisJobs' \ DOMAIN analysisJobs :
          analysisJobs'[j].video_id \notin DOMAIN videos =>
            resp'.status = 404]_vars

\* C13: creating an interval annotation whose start timestamp is not below
\* its end timestamp is answered 400 "Start timestamp must be before end
\* timestamp", creating a moment annotation without a timestamp is
\* answered 400, and neither stores an annotation (the video exists and the
\* body is well formed otherwise).
C13_BadTimestampsRejected ==
  /\ [][(/\ AnnotationHandled
         /\ annotationReq.op = "create"
         /\ annotationReq.videoId \in DOMAIN videos
         /\ annotationReq.label # NULL
         /\ annotationReq.type = "interval"
         /\ annotationReq.timestamp = Absent
         /\ IsNumber(annotationReq.startTimestamp)
         /\ IsNumber(annotationReq.endTimestamp)
         /\ annotationReq.startTimestamp[2] >= annotationReq.endTimestamp[2])
          =>
          /\ resp' = Response(400, "Start timestamp must be before end timestamp")
          /\ manualAnnotations' = manualAnnotations]_vars
  /\ [][(/\ AnnotationHandled
         /\ annotationReq.op = "create"
         /\ annotationReq.videoId \in DOMAIN videos
         /\ annotationReq.label # NULL
         /\ annotationReq.type = "moment"
         /\ annotationReq.timestamp = Absent) =>
          /\ resp'.status = 400
          /\ manualAnnotations' = manualAnnotations]_vars

C15_JobsLeaveAnnotationsAlone ==
  [][(\/ proc' # proc
      \/ analysisJobs' # analysisJobs
      \/ sentimentResults' # sentimentResults
      \/ videos' # videos) =>
       manualAnnotations' = manualAnnotations]_vars

\* an annotation is stored for a video after one job of the video failed
\* and another one completed
C15_Witness ==
  /\ manualAnnotations # <<>>
  /\ \E j, k \in DOMAIN proc :
       /\ analysisJobs[j].video_id \in DOMAIN videos
       /\ analysisJobs[k].video_id = analysisJobs[j].video_id
       /\ proc[j].pc = "done" /\ proc[j].error # NULL
       /\ Completed(k)
       /\ InsertedBy(k) # {}

\* the processing of video v has completed
ProcessingCompleted(v) == \E j \in JobsOf(v) : Completed(j)

\* C16: the history lists the videos whose processing has completed and
\* only those, latest first, each with the number of sentiment samples
\* stored for it.
C16_HistoryListsCompleted ==
  /\ \A v \in DOMAIN videos :
       (\E k \in 1..Len(history) : history[k].id = v)
         <=> ProcessingCompleted(v)
  /\ \A k \in 1..Len(history) :
       history[k].sentimentCount = Len(ResultsSentiments(history[k].id))
  /\ \A k \in 1..(Len(history) - 1) : history[k].id > history[k + 1].id

\* the digits of a timestamp
digitsOf(timestamp) == SelectSeq(timestamp, IsDigit)

InMockRange(c) ==
  c[2] > 0 /\ 70 * c[2] <= 100 * c[1] /\ 100 * c[1] <= 95 * c[2]
InUnitRange(c) == c[2] > 0 /\ 0 <= c[1] /\ c[1] <= c[2]

\* the confidences of the mapped provider results lie in [0, 1]
MappedConfidenceInRange ==
  /\ analyzer.call.fn = "normalizedConfidence" =>
       InUnitRange(analyzer.call.result)
  /\ \A k \in 1..Len(analyzer.results) :
       /\ InUnitRange(analyzer.results[k].confidence)
       /\ analyzer.results[k].confidence[2] = 933120 =>
            InMockRange(analyzer.results[k].confidence)

IsTimestampOf(ts, n) ==
  /\ Len(ts) >= 8
  /\ SubSeq(ts, 1, 3) = <<"0", "0", ":">>
  /\ ts[Len(ts) - 2] = ":"
  /\ LET mm == SubSeq(ts, 4, Len(ts) - 3)
         ss == SubSeq(ts, Len(ts) - 1, Len(ts))
     IN /\ \A i \in 1..Len(mm) : IsDigit(mm[i])
        /\ \A i \in 1..2 : IsDigit(ss[i])
        /\ Len(mm) > 2 => mm[1] # "0"
        /\ decimalValue(mm) * 60 + decimalValue(ss) = n
        /\ decimalValue(ss) < 60

\* C19: frameToTimestamp(N) is the zero-padded string 00:MM:SS with
\* MM * 60 + SS = N and SS < 60, and the sample analyzeBatch produces for
\* frame N carries the timestamp of N.
C19_TimestampOfFrame ==
  /\ analyzer.call.fn = "frameToTimestamp" =>
       IsTimestampOf(analyzer.call.result, analyzer.call.arg)
  /\ \A k \in 1..Len(analyzer.results) :
       IsTimestampOf(analyzer.results[k].timestamp, k)

\* frameToTimestamp(125) has returned 00:02:05
C19_Witness ==
  /\ analyzer.call.fn = "frameToTimestamp"
  /\ analyzer.call.arg = 125
  /\ analyzer.call.result = <<"0", "0", ":", "0", "2", ":", "0", "5">>

\* C20: within one analyzeBatch the frames are classified one at a time in
\* frame order: at most one frame is inside analyzeFrame (its image upload
\* or its classification pending), the frames before it have returned, and
\* the loop starts the next frame only when none is in flight.
C20_OneFrameAtATime ==
  /\ [](/\ Cardinality(InFlight) <= 1
        /\ InFlight \subseteq {analyzer.started}
        /\ analyzer.uploading \cap analyzer.classifying = {}
        /\ Len(analyzer.results) = analyzer.started - Cardinality(InFlight))
  /\ [][analyzer'.started > analyzer.started =>
          /\ InFlight = {}
          /\ Len(analyzer.results) = analyzer.started]_vars

\* the second frame is being classified after the first has returned
C20_Witness ==
  /\ analyzer.started = 2
  /\ analyzer.classifying = {2}
  /\ Len(analyzer.results) = 1

\* the frames of the batch that analyzeFrame has been left for
Returned == (1..analyzer.started) \ InFlight

\* C21: a failure of detectFaces or of the image upload for a frame never
\* leaves analyzeFrame and never stops the batch: every frame analyzeFrame
\* has been left for has its sample, in frame order; the sample of a frame
\* whose classification failed is the mock of its timestamp, the sample of
\* a frame whose image upload failed has imageUrl null; and while frames
\* remain the loop can take the next one.
C21_FailuresFallBack ==
  /\ Len(analyzer.results) = Cardinality(Returned)
  /\ \A i \in Returned :
       LET sample == analyzer.results[i]
           mock == getMockSentiment(frameToTimestamp(i))
       IN /\ sample.timestamp = frameToTimestamp(i)
          /\ i \in analyzer.classifyFailed =>
               /\ sample.sentiment = mock.sentiment
               /\ sample.confidence = mock.confidence
          /\ i \in analyzer.uploadFailed => sample.imageUrl = NullKey
  /\ (InFlight = {} /\ analyzer.started < analyzer.n) => ENABLED FrameStart

\* the classification of frame 1 failed, the image upload of frame 2
\* failed, and frame 3 has been classified by the provider
C21_Witness ==
  /\ 1 \in analyzer.classifyFailed
  /\ 2 \in analyzer.uploadFailed
  /\ Len(analyzer.results) = 3
  /\ 3 \notin analyzer.classifyFailed
  /\ analyzer.results[3].confidence = <<100, 100>>

\* the closed set of emotion labels, and the label each provider label
\* stands for
EmotionLabels == {"happy", "neutral", "sad", "angry", "surprised", "fearful"}

LabelFor(type) ==
  CASE type = "HAPPY" -> "happy"
    [] type = "SAD" -> "sad"
    [] type = "ANGRY" -> "angry"
    [] type = "SURPRISED" -> "surprised"
    [] type = "FEAR" -> "fearful"
    [] type = "DISGUSTED" -> "angry"
    [] OTHER -> "neutral"

\* C22: every sample analyzeFrame returns has its label in the closed set
\* {happy, neutral, sad, angry, surprised, fearful}, for every provider
\* response: the sample of a response with emotions carries the label that
\* stands for an emotion of the highest confidence (DISGUSTED angry,
\* CONFUSED, CALM and every unlisted label neutral), and the sample of a
\* response without a face or without emotions is neutral with
\* confidence 0.1.
C22_LabelsInClosedSet ==
  /\ \A k \in 1..Len(analyzer.results) :
       analyzer.results[k].sentiment \in EmotionLabels
  /\ \A a \in 1..Len(analyzer.mockCalls) :
       analyzer.mockCalls[a].sentiment \in EmotionLabels
  /\ analyzer.call.fn = "analyzeFrame" =>
       LET emotions == analyzer.call.emotions
           sample == analyzer.call.sample
       IN /\ sample.sentiment \in EmotionLabels
          /\ emotions = <<>> =>
               sample.sentiment = "neutral" /\ sample.confidence = <<10, 100>>
          /\ emotions # <<>> =>
               \E k \in 1..Len(emotions) :
                 /\ \A l \in 1..Len(emotions) :
                      emotions[l].Confidence <= emotions[k].Confidence
                 /\ sample.sentiment = LabelFor(emotions[k].Type)

\* C23: every processing attempt of a video, the first one and every re-run
\* of the process endpoint, fetches the originally uploaded file: the key a
\* job hands to downloadVideo is the key of the original upload, for every
\* video whose original is in the object store, whatever earlier jobs wrote
\* to the Video record.
C23_DownloadsOriginal ==
  \A j \in DOMAIN proc :
    LET v == analysisJobs[j].video_id
    IN (proc[j].pc = "download" /\ OriginalKey(v) \in objects) =>
         proc[j].key = OriginalKey(v)

\* no status request is in flight and no poll is scheduled
PollingEnded == client.attempts > 0 /\ ~client.request /\ client.timer = 0

\* C24: the status polling of a job is bounded: pollProcessingStatus sends
\* at most maxAttempts status requests, each poll after the first a fixed
\* pollInterval after the response before it; it sends no request after a
\* response that reports completed or failed or carries an error; and the
\* polling ends, also when no response ever reports a terminal status.
C24_PollingIsBounded ==
  /\ [](/\ client.attempts <= maxAttempts
        /\ client.timer \in {0, pollInterval}
        /\ client.reportedEnd => PollingEnded)
  /\ [][PollingEnded => client'.attempts = client.attempts]_vars
  /\ (client.attempts > 0) ~> PollingEnded

\* the polling gave up after maxAttempts responses of a running job
C24_Witness ==
  /\ client.attempts = maxAttempts
  /\ PollingEnded
  /\ ~client.reportedEnd

\* C25: the promise pollProcessingStatus returns settles only when a status
\* response has reported completed (it resolves) or when the polling has
\* failed or timed out (it rejects); hence the client requests the results
\* and replaces the analysis displayed only after the status endpoint has
\* reported the job completed.
C25_ResultsAfterCompleted ==
  /\ client.promise = "resolved" => client.reportedCompleted
  /\ client.promise = "rejected" => PollingEnded
  /\ client.pc = "results" => client.reportedCompleted
  /\ client.analysis = "results" => client.reportedCompleted

\* C26: after any sequence of process invocations for a video the stored
\* sentiment samples hold at most one sample per (video id, timestamp), so
\* the results endpoint never returns a timestamp twice.
C26_OneSamplePerTimestamp ==
  /\ \A a, b \in 1..Len(sentimentResults) :
       (/\ sentimentResults[a].video_id = sentimentResults[b].video_id
        /\ sentimentResults[a].timestamp = sentimentResults[b].timestamp)
         => a = b
  /\ \A v \in DOMAIN videos :
       LET returned == ResultsSentiments(v)
       IN \A a, b \in 1..Len(returned) :
            returned[a].timestamp = returned[b].timestamp => a = b

\* C27: GET /upload/:videoId/results reports the status completed only for
\* a video that has a job in status completed.
C27_CompletedMeansCompleted ==
  \A v \in DOMAIN videos :
    (ResultsResponse(v).status = 200 /\ ResultsStatus(v) = "completed") =>
      \E j \in JobsOf(v) : analysisJobs[j].status = "completed"

\* the sum of the counts of byType
RECURSIVE SumCounts(_)
SumCounts(byType) ==
  IF DOMAIN byType = {} THEN 0
  ELSE LET t == CHOOSE x \in DOMAIN byType : TRUE
       IN byType[t] + SumCounts([u \in DOMAIN byType \ {t} |-> byType[u]])

\* C28: in every response of GET /annotations/:videoId/stats, total is the
\* sum of the counts by type in byType, also when annotations of the video
\* are created or deleted while the request is handled.
C28_TotalIsSumByType ==
  stats.pc = "answered" => stats.total = SumCounts(stats.byType)

\* a request with a type, a label and numeric timestamps inside
\* [0, duration]: a moment, or an interval with start before end
WellFormedAnnotation(r, duration) ==
  /\ r.label # NULL
  /\ \/ /\ r.type = "moment"
        /\ IsNumber(r.timestamp)
        /\ WithinDuration(r.timestamp, duration)
        /\ r.startTimestamp = Absent /\ r.endTimestamp = Absent
     \/ /\ r.type = "interval"
        /\ r.timestamp = Absent
        /\ IsNumber(r.startTimestamp) /\ IsNumber(r.endTimestamp)
        /\ WithinDuration(r.startTimestamp, duration)
        /\ WithinDuration(r.endTimestamp, duration)
        /\ r.startTimestamp[2] < r.endTimestamp[2]

\* C29: POST /annotations/:videoId accepts every annotation with a type, a
\* label and timestamps inside [0, video.duration], the boundary 0
\* included: it stores the annotation and answers 201.
C29_WellFormedIsAccepted ==
  [][(/\ AnnotationHandled
      /\ annotationReq.op = "create"
      /\ annotationReq.videoId \in DOMAIN videos
      /\ WellFormedAnnotation(annotationReq,
                              videos[annotationReq.videoId].duration)) =>
       /\ resp'.status = 201
       /\ \E a \in DOMAIN manualAnnotations' \ DOMAIN manualAnnotations :
            manualAnnotations'[a] = annotationDoc(annotationReq)]_vars

\* C30: annotation timestamps round-trip through the hook and the server:
\* an interval of whole seconds 0 < start < end <= video.duration that
\* createAnnotation posts as 00:MM:SS strings is accepted and stored, and
\* the seconds the hook shows for the stored annotation are start and end;
\* and the seconds the hook shows for a stored moment are those posted.
C30_TimestampsRoundTrip ==
  /\ [](\A s \in HookSeconds :
          \A a \in DOMAIN manualAnnotations :
            manualAnnotations[a].timestamp = Str(secondsToTimestamp(s)) =>
              shownSeconds(manualAnnotations[a].timestamp) = Num(s))
  /\ [][\A start, end \in HookIntervalSeconds :
          (/\ AnnotationHandled
           /\ annotationReq.videoId \in DOMAIN videos
           /\ 0 < start /\ start < end
           /\ end <= videos[annotationReq.videoId].duration
           /\ annotationReq =
                payload([type |-> "interval", timestamp |-> 0,
                         startTimestamp |-> start, endTimestamp |-> end])) =>
            /\ resp'.status = 201
            /\ \E a \in DOMAIN manualAnnotations' \ DOMAIN manualAnnotations :
                 /\ shownSeconds(manualAnnotations'[a].start_timestamp)
                      = Num(start)
                 /\ shownSeconds(manualAnnotations'[a].end_timestamp)
                      = Num(end)]_vars

====
